---- MODULE Spec2Model ----
(***************************************************************************)
(* LaitBox (src/laitbox.js): a lightbox over bootstrap.Modal.              *)
(*                                                                         *)
(* The model follows the class method by method.  The constructor is       *)
(* synchronous, so one construction is one step; the continuations the     *)
(* constructor leaves behind (the fetch promise chain and the image's      *)
(* load event) are steps of their own, taken in any order.                 *)
(***************************************************************************)
EXTENDS Naturals, Sequences, FiniteSets, TLC

VARIABLES listeners, document, modalInstances, instances, showCalls

vars == <<listeners, document, modalInstances, instances, showCalls>>

----------------------------------------------------------------------------
(* Bounds of the model.                                                    *)

\* LaitBox objects constructed in one run.
MaxInstances == 2
\* show() calls the callers make in one run.
MaxShowCalls == 1
\* data-bs-* option attributes present on a trigger (configuration runs).
MaxAttrsPresent == 1
\* fields listed in the explicit options object (configuration runs).
MaxExplicit == 1

----------------------------------------------------------------------------
(* JavaScript values: a pair <<type, payload>>.                            *)

JUndef == <<"undefined", "">>
JNull == <<"null", "">>
JTrue == <<"boolean", "true">>
JFalse == <<"boolean", "false">>
JStr(s) == <<"string", s>>
JBool(b) == IF b THEN JTrue ELSE JFalse

\* ToBoolean: undefined, null, false and the empty string are falsy.
Truthy(v) == v \notin {JUndef, JNull, JFalse, JStr("")}

\* a || b
Or(a, b) == IF Truthy(a) THEN a ELSE b

\* ${v} in a template literal.
ToStr(v) == IF v[1] \in {"undefined", "null"} THEN v[1] ELSE v[2]

----------------------------------------------------------------------------
(* Configuration: constructor, parseDataAttributes.                        *)

Fields ==
    {"size", "keyboard", "staticBackdrop", "header", "footer", "fade",
     "centered", "scrollable"}

\* The object literal that is Object.assign's target.
Defaults ==
    [size |-> JStr("lg"), keyboard |-> JTrue, staticBackdrop |-> JFalse,
     header |-> JTrue, footer |-> JFalse, fade |-> JTrue, centered |-> JTrue,
     scrollable |-> JFalse]

\* The attribute each field is read from.
AttrOf ==
    [size |-> "data-bs-size", keyboard |-> "data-bs-keyboard",
     staticBackdrop |-> "data-bs-static-backdrop", header |-> "data-bs-header",
     footer |-> "data-bs-footer", fade |-> "data-bs-fade",
     centered |-> "data-bs-centered", scrollable |-> "data-bs-scrollable"]

OptionAttrs == {AttrOf[f] : f \in Fields}
AttrNames == OptionAttrs \cup {"data-bs-target"}

\* element.getAttribute(name): the value, or null when the attribute is absent.
getAttribute(el, name) == el.attrs[name]

\* A reader that takes every boolean attribute as true exactly when it is the
\* string "true".
parseDataAttributesSymmetric(el) ==
    [size |-> Or(getAttribute(el, "data-bs-size"), JStr("lg")),
     keyboard |-> JBool(getAttribute(el, "data-bs-keyboard") = JStr("true")),
     staticBackdrop |->
         JBool(getAttribute(el, "data-bs-static-backdrop") = JStr("true")),
     header |-> JBool(getAttribute(el, "data-bs-header") = JStr("true")),
     footer |-> JBool(getAttribute(el, "data-bs-footer") = JStr("true")),
     fade |-> JBool(getAttribute(el, "data-bs-fade") = JStr("true")),
     centered |-> JBool(getAttribute(el, "data-bs-centered") = JStr("true")),
     scrollable |-> JBool(getAttribute(el, "data-bs-scrollable") = JStr("true"))]

\* A reader that falls back to 'lg' only for an absent size attribute (??).
parseDataAttributesNullish(el) ==
    [size |->
        IF getAttribute(el, "data-bs-size") = JNull
        THEN JStr("lg")
        ELSE getAttribute(el, "data-bs-size"),
     keyboard |-> JBool(getAttribute(el, "data-bs-keyboard") # JStr("false")),
     staticBackdrop |->
         JBool(getAttribute(el, "data-bs-static-backdrop") = JStr("true")),
     header |-> JBool(getAttribute(el, "data-bs-header") # JStr("false")),
     footer |-> JBool(getAttribute(el, "data-bs-footer") = JStr("true")),
     fade |-> JBool(getAttribute(el, "data-bs-fade") # JStr("false")),
     centered |-> JBool(getAttribute(el, "data-bs-centered") # JStr("false")),
     scrollable |-> JBool(getAttribute(el, "data-bs-scrollable") = JStr("true"))]

parseDataAttributes(el) ==
    [size |-> Or(getAttribute(el, "data-bs-size"), JStr("lg")),
     keyboard |-> JBool(getAttribute(el, "data-bs-keyboard") # JStr("false")),
     staticBackdrop |->
         JBool(getAttribute(el, "data-bs-static-backdrop") = JStr("true")),
     header |-> JBool(getAttribute(el, "data-bs-header") # JStr("false")),
     footer |-> JBool(getAttribute(el, "data-bs-footer") = JStr("true")),
     fade |-> JBool(getAttribute(el, "data-bs-fade") # JStr("false")),
     centered |-> JBool(getAttribute(el, "data-bs-centered") # JStr("false")),
     scrollable |-> JBool(getAttribute(el, "data-bs-scrollable") = JStr("true"))]

\* One source copied onto the target: every own property of the source,
\* whatever its value, overwrites the target's.
AssignOne(target, source) ==
    [f \in DOMAIN target \cup DOMAIN source |->
        IF f \in DOMAIN source THEN source[f] ELSE target[f]]

\* A merge that lets the earlier source win.
ObjectAssignFirstWins(target, s1, s2) == AssignOne(AssignOne(target, s2), s1)

\* Object.assign(target, s1, s2): sources are copied left to right.
ObjectAssign(target, s1, s2) == AssignOne(AssignOne(target, s1), s2)

----------------------------------------------------------------------------
(* Strings the regular expression looks into, as character sequences.      *)

UrlChars ==
    "" :> <<>>
    @@ "foo.html" :> <<"f", "o", "o", ".", "h", "t", "m", "l">>
    @@ "page" :> <<"p", "a", "g", "e">>
    @@ "cat.PNG" :> <<"c", "a", "t", ".", "P", "N", "G">>
    @@ "cat.png?v=1" :> <<"c", "a", "t", ".", "p", "n", "g", "?", "v", "=", "1">>
    @@ "doc.html#a.svg" :>
        <<"d", "o", "c", ".", "h", "t", "m", "l", "#", "a", ".", "s", "v", "g">>

\* The i flag: upper-case letters of the alphabet in use, folded.
LowerChar(c) ==
    CASE c = "P" -> "p"
      [] c = "N" -> "n"
      [] c = "G" -> "g"
      [] OTHER -> c

Lower(s) == [k \in 1..Len(s) |-> LowerChar(s[k])]

EndsWith(s, suffix) ==
    /\ Len(s) >= Len(suffix)
    /\ SubSeq(s, Len(s) - Len(suffix) + 1, Len(s)) = suffix

ImageExtensions ==
    {<<"j", "p", "e", "g">>, <<"j", "p", "g">>, <<"g", "i", "f">>,
     <<"p", "n", "g">>, <<"s", "v", "g">>}

\* url.match(/\.(jpeg|jpg|gif|png|svg)$/i): the whole string must end in a
\* dot and one of the extensions, in any case.
matchImage(url) ==
    \E ext \in ImageExtensions : EndsWith(Lower(UrlChars[url]), <<".">> \o ext)

----------------------------------------------------------------------------
(* The document and bootstrap.Modal's registry of instances.               *)

\* What a dialog body holds.
EmptyBody == [kind |-> "empty", src |-> "", status |-> ""]
ImgBody(url) == [kind |-> "img", src |-> url, status |-> ""]
\* The text of the response fetched from url, which came with the status.
TextBody(url, status) == [kind |-> "text", src |-> url, status |-> status]
\* '<p>Error loading the content.</p>'
ErrorBody == [kind |-> "error", src |-> "", status |-> ""]
\* Markup the page put there itself.
PageBody == [kind |-> "page", src |-> "", status |-> ""]

SeqIndices(s) == 1..Len(s)

\* A lookup that never finds anything.
getElementByIdNever(doc, id) == 0

\* document.getElementById(id): the first element with the id, or null (0).
getElementById(doc, id) ==
    IF \E e \in SeqIndices(doc) : doc[e].id = id
    THEN CHOOSE e \in SeqIndices(doc) :
            /\ doc[e].id = id
            /\ \A d \in SeqIndices(doc) : doc[d].id = id => e <= d
    ELSE 0

\* bootstrap.Modal.getInstance(element): the instance bound to the element, or
\* null (0).
getInstance(modals, e) ==
    IF \E h \in SeqIndices(modals) : modals[h].element = e
    THEN CHOOSE h \in SeqIndices(modals) :
            /\ modals[h].element = e
            /\ \A g \in SeqIndices(modals) : modals[g].element = e => h <= g
    ELSE 0

\* A div built without "modal.id = targetId".
createModalElementUnnamed(targetId, options) ==
    [id |-> "",
     fade |-> Truthy(options.fade),
     size |-> ToStr(options.size),
     centered |-> Truthy(options.centered),
     scrollable |-> Truthy(options.scrollable),
     header |-> Truthy(options.header),
     footer |-> Truthy(options.footer),
     backdropAttr |-> JNull,
     hasBody |-> TRUE,
     body |-> EmptyBody,
     bodyDisplay |-> ""]

\* The div initModal builds when no element has the id.
createModalElement(targetId, options) ==
    [id |-> targetId,
     fade |-> Truthy(options.fade),
     size |-> ToStr(options.size),
     centered |-> Truthy(options.centered),
     scrollable |-> Truthy(options.scrollable),
     header |-> Truthy(options.header),
     footer |-> Truthy(options.footer),
     backdropAttr |-> JNull,
     hasBody |-> TRUE,
     body |-> EmptyBody,
     bodyDisplay |-> ""]

\* new bootstrap.Modal(element, {keyboard: options.keyboard})
newModal(e, options) ==
    [element |-> e, keyboard |-> options.keyboard, backdrop |-> JUndef,
     shows |-> 0]

\* modal.show() on handle h.
show(modals, h) == [modals EXCEPT ![h].shows = @ + 1]

----------------------------------------------------------------------------
(* initModal and loadContent, as far as they run inside the constructor.   *)

\* An else branch of initModal that applies the instance's configuration to
\* the element that was found and to its handle.
initModalRestyle(doc, modals, targetId, options) ==
    LET found == getElementById(doc, targetId)
        h == getInstance(modals, found)
    IN  IF found = 0
        THEN [document |-> Append(doc, createModalElement(targetId, options)),
              modalInstances |-> Append(modals, newModal(Len(doc) + 1, options)),
              modalElement |-> Len(doc) + 1,
              modal |-> Len(modals) + 1]
        ELSE [document |->
                [doc EXCEPT ![found].fade = Truthy(options.fade),
                            ![found].size = ToStr(options.size),
                            ![found].centered = Truthy(options.centered),
                            ![found].scrollable = Truthy(options.scrollable),
                            ![found].header = Truthy(options.header),
                            ![found].footer = Truthy(options.footer)],
              modalInstances |->
                IF h = 0 THEN modals
                ELSE [modals EXCEPT ![h].keyboard = options.keyboard],
              modalElement |-> found,
              modal |-> h]

\* The else branch of initModal building a second bootstrap.Modal over the
\* element that was found.
initModalReinstantiate(doc, modals, targetId, options) ==
    LET found == getElementById(doc, targetId)
        e == IF found = 0 THEN Len(doc) + 1 ELSE found
    IN  [document |->
            IF found = 0
            THEN Append(doc, createModalElement(targetId, options))
            ELSE doc,
         modalInstances |-> Append(modals, newModal(e, options)),
         modalElement |-> e,
         modal |-> Len(modals) + 1]

\* initModal up to "this.modalElement = modal": the document and the registry
\* afterwards, and the two fields of this.
initModal(doc, modals, targetId, options) ==
    LET found == getElementById(doc, targetId)
    IN  IF found = 0
        THEN [document |-> Append(doc, createModalElement(targetId, options)),
              modalInstances |-> Append(modals, newModal(Len(doc) + 1, options)),
              modalElement |-> Len(doc) + 1,
              modal |-> Len(modals) + 1]
        ELSE [document |-> doc,
              modalInstances |-> modals,
              modalElement |-> found,
              modal |-> getInstance(modals, found)]

\* A loadContent that clears the body's layout along with its content.
loadContentResetLayout(doc, e, url) ==
    IF ~doc[e].hasBody
    THEN [document |-> doc, threw |-> TRUE, path |-> "none", pc |-> "none"]
    ELSE IF url[1] # "string"
    THEN [document |-> [doc EXCEPT ![e].body = EmptyBody, ![e].bodyDisplay = ""],
          threw |-> TRUE, path |-> "none", pc |-> "none"]
    ELSE IF matchImage(url[2])
    THEN [document |->
            [doc EXCEPT ![e].body = ImgBody(url[2]), ![e].bodyDisplay = "flex"],
          threw |-> FALSE, path |-> "image", pc |-> "imgwait"]
    ELSE [document |-> [doc EXCEPT ![e].body = EmptyBody, ![e].bodyDisplay = ""],
          threw |-> FALSE, path |-> "html", pc |-> "fetch"]

\* loadContent(url) up to its return to the constructor: the document
\* afterwards, whether a TypeError left the constructor, the branch taken and
\* the continuation that is pending.
loadContent(doc, e, url) ==
    IF ~doc[e].hasBody
    THEN \* querySelector gave null: "body.innerHTML = ''" throws
         [document |-> doc, threw |-> TRUE, path |-> "none", pc |-> "none"]
    ELSE IF url[1] # "string"
    THEN \* the body is cleared, then url.match throws on undefined
         [document |-> [doc EXCEPT ![e].body = EmptyBody],
          threw |-> TRUE, path |-> "none", pc |-> "none"]
    ELSE IF matchImage(url[2])
    THEN [document |->
            [doc EXCEPT ![e].body = ImgBody(url[2]), ![e].bodyDisplay = "flex"],
          threw |-> FALSE, path |-> "image", pc |-> "imgwait"]
    ELSE [document |-> [doc EXCEPT ![e].body = EmptyBody],
          threw |-> FALSE, path |-> "html", pc |-> "fetch"]

\* randomId(): 'laitbox-' and up to nine base-36 digits of Math.random().
RandomIds == {"laitbox-k3x", "laitbox-9qz"}

\* new LaitBox(triggerElement, options), where randomId() would give rnd.
Construct(triggerElement, options, rnd) ==
    /\ Len(instances) < MaxInstances
    /\ \E resolved \in
            {ObjectAssign(Defaults, parseDataAttributes(triggerElement), options)},
          targetId \in
            {ToStr(Or(getAttribute(triggerElement, "data-bs-target"), JStr(rnd)))},
          url \in {Or(triggerElement.href, triggerElement.src)} :
        \E im \in {initModal(document, modalInstances, targetId, resolved)} :
        \E lc \in {loadContent(im.document, im.modalElement, url)} :
            /\ UNCHANGED <<listeners, showCalls>>
            /\ document' = lc.document
            /\ modalInstances' = im.modalInstances
            /\ instances' =
                Append(instances,
                    [triggerElement |-> triggerElement,
                     explicit |-> options,
                     options |-> resolved,
                     targetId |-> targetId,
                     url |-> url,
                     modalElement |-> im.modalElement,
                     modal |-> im.modal,
                     threw |-> lc.threw,
                     path |-> lc.path,
                     pc |-> lc.pc,
                     response |-> "",
                     loaderShows |-> 0])

----------------------------------------------------------------------------
(* The continuations of loadContent, and show().                           *)

Running == SeqIndices(instances)

\* this.modal.show() inside a continuation of instance i: the registry
\* afterwards (null.show() throws and shows nothing).
thisModalShow(i) ==
    IF instances[i].modal = 0
    THEN modalInstances
    ELSE show(modalInstances, instances[i].modal)

\* fetch(url) resolves with a response, whatever its status: the first
\* then-callback calls response.text().
FetchResolve(i) ==
    /\ instances[i].pc = "fetch"
    /\ instances' = [instances EXCEPT ![i].pc = "text"]
    /\ UNCHANGED <<listeners, document, modalInstances, showCalls>>

\* fetch(url) rejects: a network error.
FetchReject(i) ==
    /\ instances[i].pc = "fetch"
    /\ instances' =
        [instances EXCEPT ![i].pc = "catch", ![i].response = "fetchRejected"]
    /\ UNCHANGED <<listeners, document, modalInstances, showCalls>>

\* A then-callback that leaves a body alone once another load has filled it.
TextResolveFirstWins(i, status) ==
    /\ instances[i].pc = "text"
    /\ UNCHANGED <<listeners, showCalls>>
    /\ document' =
        IF document[instances[i].modalElement].body = EmptyBody
        THEN [document EXCEPT ![instances[i].modalElement].body =
                TextBody(instances[i].url[2], status)]
        ELSE document
    /\ modalInstances' = thisModalShow(i)
    /\ instances' =
        IF instances[i].modal = 0
        THEN [instances EXCEPT ![i].pc = "catch", ![i].response = status]
        ELSE [instances EXCEPT ![i].pc = "done", ![i].response = status,
                               ![i].loaderShows = @ + 1]

\* response.text() resolves with the body of a response whose status was 2xx
\* or not: the second then-callback writes the text into the body and shows;
\* a throw in it goes on to the catch-callback.
TextResolve(i, status) ==
    /\ instances[i].pc = "text"
    /\ UNCHANGED <<listeners, showCalls>>
    /\ document' =
        [document EXCEPT ![instances[i].modalElement].body =
            TextBody(instances[i].url[2], status)]
    /\ modalInstances' = thisModalShow(i)
    /\ instances' =
        IF instances[i].modal = 0
        THEN [instances EXCEPT ![i].pc = "catch", ![i].response = status]
        ELSE [instances EXCEPT ![i].pc = "done", ![i].response = status,
                               ![i].loaderShows = @ + 1]

\* response.text() rejects: the body cannot be read.
TextReject(i) ==
    /\ instances[i].pc = "text"
    /\ instances' =
        [instances EXCEPT ![i].pc = "catch", ![i].response = "textRejected"]
    /\ UNCHANGED <<listeners, document, modalInstances, showCalls>>

\* A catch-callback that shows nothing.
CatchCallbackSilent(i) ==
    /\ instances[i].pc = "catch"
    /\ document' =
        [document EXCEPT ![instances[i].modalElement].body = ErrorBody]
    /\ instances' = [instances EXCEPT ![i].pc = "done"]
    /\ UNCHANGED <<listeners, modalInstances, showCalls>>

\* A catch-callback that shows and leaves the body as it is.
CatchCallbackNoMessage(i) ==
    /\ instances[i].pc = "catch"
    /\ modalInstances' = thisModalShow(i)
    /\ instances' =
        IF instances[i].modal = 0
        THEN [instances EXCEPT ![i].pc = "unhandled"]
        ELSE [instances EXCEPT ![i].pc = "done", ![i].loaderShows = @ + 1]
    /\ UNCHANGED <<listeners, document, showCalls>>

\* The catch-callback: the error message goes into the body, then show; a
\* throw in it is an unhandled rejection.
CatchCallback(i) ==
    /\ instances[i].pc = "catch"
    /\ UNCHANGED <<listeners, showCalls>>
    /\ document' =
        [document EXCEPT ![instances[i].modalElement].body = ErrorBody]
    /\ modalInstances' = thisModalShow(i)
    /\ instances' =
        IF instances[i].modal = 0
        THEN [instances EXCEPT ![i].pc = "unhandled"]
        ELSE [instances EXCEPT ![i].pc = "done", ![i].loaderShows = @ + 1]

\* img.onload: the image's load event fires.
ImageLoad(i) ==
    /\ instances[i].pc = "imgwait"
    /\ modalInstances' = thisModalShow(i)
    /\ instances' =
        IF instances[i].modal = 0
        THEN [instances EXCEPT ![i].pc = "unhandled"]
        ELSE [instances EXCEPT ![i].pc = "done", ![i].loaderShows = @ + 1]
    /\ UNCHANGED <<listeners, document, showCalls>>

\* An error handler on the image that falls back like the fetch does.
ImageErrorFallback(i) ==
    /\ instances[i].pc = "imgwait"
    /\ UNCHANGED <<listeners, showCalls>>
    /\ document' =
        [document EXCEPT ![instances[i].modalElement].body = ErrorBody]
    /\ modalInstances' = thisModalShow(i)
    /\ instances' =
        IF instances[i].modal = 0
        THEN [instances EXCEPT ![i].pc = "unhandled"]
        ELSE [instances EXCEPT ![i].pc = "imgfailed", ![i].loaderShows = @ + 1]

\* The image's error event fires: no handler is attached, nothing runs.
ImageError(i) ==
    /\ instances[i].pc = "imgwait"
    /\ instances' = [instances EXCEPT ![i].pc = "imgfailed"]
    /\ UNCHANGED <<listeners, document, modalInstances, showCalls>>

\* show(), called by the code that constructed instance i.
Show(i) ==
    /\ ~instances[i].threw
    /\ showCalls < MaxShowCalls
    /\ showCalls' = showCalls + 1
    /\ modalInstances' = thisModalShow(i)
    /\ UNCHANGED <<listeners, document, instances>>

----------------------------------------------------------------------------
(* The page: trigger elements, the document at load time, the callers.     *)

\* The attributes of an element: those given as strings, the others absent.
WithAttrs(given) ==
    [a \in AttrNames |-> IF a \in DOMAIN given THEN JStr(given[a]) ELSE JNull]

TriggerElement(given, href, src) ==
    [attrs |-> WithAttrs(given), href |-> href, src |-> src]

\* <a href=h ...>: an anchor has no src property.
Anchor(given, h) == TriggerElement(given, JStr(h), JUndef)

NoOptions == <<>>

\* The click listeners of the page: the element and the options each passes
\* to "new LaitBox(el, options)".
PageListeners ==
    {<<Anchor("data-bs-target" :> "#demo", "foo.html"), NoOptions>>,
     <<Anchor("data-bs-target" :> "#demo", "cat.PNG"),
       [header |-> JFalse, keyboard |-> JFalse, staticBackdrop |-> JTrue]>>,
     \* <img src="cat.png?v=1" ...>: no href property, no target
     <<TriggerElement("data-bs-static-backdrop" :> "true"
                        @@ "data-bs-keyboard" :> "false",
                      JUndef, JStr("cat.png?v=1")),
       NoOptions>>,
     \* <button data-bs-target="#demo">: neither href nor src
     <<TriggerElement("data-bs-target" :> "#demo", JUndef, JUndef), NoOptions>>,
     <<Anchor("data-bs-target" :> "raw", "foo.html"), NoOptions>>,
     <<Anchor("data-bs-target" :> "nobody", "foo.html"), NoOptions>>}

\* What randomId() can return when the call reaches it.
RandomFor(triggerElement) ==
    IF Truthy(getAttribute(triggerElement, "data-bs-target"))
    THEN {"laitbox-k3x"}
    ELSE RandomIds

\* A dialog the page's own markup holds.
PageElement(id, hasBody) ==
    [id |-> id, fade |-> TRUE, size |-> "sm", centered |-> FALSE,
     scrollable |-> FALSE, header |-> TRUE, footer |-> TRUE,
     backdropAttr |-> JNull, hasBody |-> hasBody,
     body |-> IF hasBody THEN PageBody ELSE EmptyBody, bodyDisplay |-> ""]

\* "raw": a dialog the page has not initialised with bootstrap.Modal;
\* "nobody": an initialised one without a .modal-body.
InitDocument ==
    /\ document = <<PageElement("raw", TRUE), PageElement("nobody", FALSE)>>
    /\ modalInstances =
        <<[element |-> 2, keyboard |-> JTrue, backdrop |-> JUndef, shows |-> 0]>>
    /\ instances = <<>>
    /\ showCalls = 0

Init ==
    /\ listeners = PageListeners
    /\ InitDocument

\* A click on a trigger runs its listener.
Click ==
    \E c \in listeners : \E rnd \in RandomFor(c[1]) : Construct(c[1], c[2], rnd)

Next ==
    \/ Click
    \/ \E i \in Running : FetchResolve(i)
    \/ \E i \in Running : FetchReject(i)
    \/ \E i \in Running : TextResolve(i, "2xx")
    \/ \E i \in Running : TextResolve(i, "non2xx")
    \/ \E i \in Running : TextReject(i)
    \/ \E i \in Running : CatchCallback(i)
    \/ \E i \in Running : ImageLoad(i)
    \/ \E i \in Running : ImageError(i)
    \/ \E i \in Running : Show(i)

Spec == Init /\ [][Next]_vars

----------------------------------------------------------------------------
(* Configuration runs: one construction, over every trigger and options    *)
(* object within the bounds.                                               *)

\* Values of an option attribute that is present.
AttrValues == {JStr("true"), JStr("false"), JStr(""), JStr("xl")}

\* Values of a field the options object lists; none is validated.
ExplicitValues == {JTrue, JFalse, JStr("sm"), JUndef}

\* The sets of at most n of the names.
UpTo(names, n) == {S \in SUBSET names : Cardinality(S) <= n}

\* A trigger whose option attributes are those of given, with target #demo.
ConfigTrigger(given) ==
    [attrs |-> [n \in AttrNames |->
                    IF n = "data-bs-target" THEN JStr("#demo")
                    ELSE IF n \in DOMAIN given THEN given[n] ELSE JNull],
     href |-> JStr("foo.html"), src |-> JUndef]

\* A page with one listener: at most MaxAttrsPresent option attributes on
\* the trigger, at most MaxExplicit fields listed in the options.
InitConfig ==
    /\ \E A \in UpTo(OptionAttrs, MaxAttrsPresent), S \in UpTo(Fields, MaxExplicit) :
         \E given \in [A -> AttrValues], o \in [S -> ExplicitValues] :
            listeners = {<<ConfigTrigger(given), o>>}
    /\ InitDocument

NextConfig == instances = <<>> /\ Click

SpecConfig == InitConfig /\ [][NextConfig]_vars

----------------------------------------------------------------------------
(* Properties.                                                             *)

\* The element instance i works on, and whether a handle is bound to it.
ElementOf(i) == instances[i].modalElement
HasHandle(i) == instances[i].modal # 0

\* C1: every field of the resolved configuration is the explicit option when
\* the options object lists the field, otherwise the value read from the
\* trigger's attribute when the attribute is present, otherwise the default.
C1_Precedence ==
    \A i \in Running :
        LET inst == instances[i]
            el == inst.triggerElement
        IN  /\ DOMAIN inst.options = Fields
            /\ \A f \in Fields :
                inst.options[f] =
                    IF f \in DOMAIN inst.explicit THEN inst.explicit[f]
                    ELSE IF getAttribute(el, AttrOf[f]) # JNull
                         THEN parseDataAttributes(el)[f]
                         ELSE Defaults[f]

\* An explicit option has overridden a different value read from a present
\* attribute, which itself differs from the default.
C1_Witness ==
    \E i \in Running : \E f \in Fields :
        LET inst == instances[i]
            read == parseDataAttributes(inst.triggerElement)[f]
        IN  /\ getAttribute(inst.triggerElement, AttrOf[f]) # JNull
            /\ read # Defaults[f]
            /\ f \in DOMAIN inst.explicit
            /\ inst.explicit[f] # read
            /\ inst.options[f] = inst.explicit[f]

\* C2: an identifier names at most one element of the document, and an
\* element has at most one bootstrap.Modal instance over it.
C2_OneElementOneHandle ==
    /\ \A d, e \in SeqIndices(document) :
        document[d].id = document[e].id => d = e
    /\ \A g, h \in SeqIndices(modalInstances) :
        modalInstances[g].element = modalInstances[h].element => g = h

\* A second construction has met an element that already had its handle.
C2_Witness ==
    \E i, j \in Running :
        /\ i < j
        /\ ElementOf(i) = ElementOf(j)
        /\ HasHandle(j)
        /\ modalInstances[instances[j].modal].element = ElementOf(j)

\* C3: a construction whose target identifier an earlier construction used
\* adds no element and no handle, and takes the element and the handle of the
\* earlier one.
C3_SequentialIdempotence ==
    [][Len(instances') = Len(instances) + 1 =>
        LET new == instances'[Len(instances')]
        IN  \A i \in Running :
                instances[i].targetId = new.targetId =>
                    /\ Len(document') = Len(document)
                    /\ Len(modalInstances') = Len(modalInstances)
                    /\ new.modalElement = instances[i].modalElement
                    /\ new.modal = instances[i].modal]_vars

\* Two constructions in a row on the identifier of an element LaitBox made.
C3_Witness ==
    \E i, j \in Running :
        /\ j = i + 1
        /\ instances[i].targetId = "#demo"
        /\ instances[j].targetId = "#demo"
        /\ instances[j].modal = instances[i].modal
        /\ HasHandle(i)

\* The load of instance i is over: its last continuation has run, or the
\* image has failed.
Completed(i) == instances[i].pc \in {"done", "imgfailed", "unhandled"}

\* C4, as stated: every load that is over, with success or with a failure,
\* has shown the dialog exactly once (over an element with a bound handle).
C4_EveryLoadShowsOnce ==
    \A i \in Running :
        (HasHandle(i) /\ Completed(i)) => instances[i].loaderShows = 1

\* C4, amended: over an element with a bound handle, a load has shown the
\* dialog once when its last continuation has run (the fetch chain, with
\* success or failure, or the image's load event) and not at all before; a
\* failed image load has not shown it.
C4_ShowsOncePerFinishedLoad ==
    \A i \in Running :
        HasHandle(i) =>
            instances[i].loaderShows = IF instances[i].pc = "done" THEN 1 ELSE 0

\* One fetch has ended in the catch-callback and shown once; one image has
\* failed and shown nothing.
C4_Witness ==
    \E i, j \in Running :
        /\ instances[i].path = "html"
        /\ instances[i].pc = "done"
        /\ instances[i].response = "fetchRejected"
        /\ instances[i].loaderShows = 1
        /\ instances[j].path = "image"
        /\ instances[j].pc = "imgfailed"
        /\ instances[j].loaderShows = 0

\* The fetch of instance i, or the reading of its response, was rejected.
Rejected(i) == instances[i].response \in {"fetchRejected", "textRejected"}

\* C5: when the fetch or response.text() rejects, the step that handles the
\* rejection leaves the error message in the body and shows the handle once,
\* and that is the only show of the load.
C5_RejectedFetchShowsError ==
    /\ [][\A i \in Running :
            (/\ Rejected(i)
             /\ HasHandle(i)
             /\ instances[i].pc = "catch"
             /\ instances'[i].pc # "catch") =>
                /\ document'[ElementOf(i)].body = ErrorBody
                /\ instances'[i].pc = "done"
                /\ instances'[i].loaderShows = 1
                /\ modalInstances'[instances[i].modal].shows =
                     modalInstances[instances[i].modal].shows + 1]_vars
    /\ [](\A i \in Running :
            (Rejected(i) /\ HasHandle(i)) =>
                instances[i].loaderShows = IF instances[i].pc = "done" THEN 1 ELSE 0)

\* response.text() was rejected, and the dialog shows the error message.
C5_Witness ==
    \E i \in Running :
        /\ instances[i].response = "textRejected"
        /\ instances[i].pc = "done"
        /\ HasHandle(i)
        /\ document[ElementOf(i)].body = ErrorBody
        /\ modalInstances[instances[i].modal].shows = 1

\* C6: the text of a response whose status is not 2xx never gets into a
\* dialog body (the load is handled as a failure).
C6_Non2xxIsFailure ==
    \A e \in SeqIndices(document) : document[e].body.status # "non2xx"

\* C7: an element created under staticBackdrop = true carries the static
\* backdrop mark, on itself or in the options of its bootstrap.Modal, and one
\* created under staticBackdrop = false does not.
C7_StaticBackdropMarked ==
    [][Len(document') = Len(document) + 1 =>
        LET new == instances'[Len(instances')]
            marked ==
                \/ document'[new.modalElement].backdropAttr = JStr("static")
                \/ modalInstances'[new.modal].backdrop = JStr("static")
        IN  Truthy(new.options.staticBackdrop) <=> marked]_vars

\* C8: no construction throws.
C8_ConstructorNeverThrows ==
    \A i \in Running : ~instances[i].threw

\* C9: on the image path the loader shows only in the load event's handler,
\* once; the steps of an image load write nothing into the body, and a step
\* other than the load event shows nothing.
C9_ImageShownOnLoadOnly ==
    /\ [](\A i \in Running :
            instances[i].path = "image" =>
                /\ instances[i].loaderShows > 0 => instances[i].pc = "done"
                /\ instances[i].loaderShows <= 1)
    /\ [][\A i \in Running :
            (instances[i].path = "image" /\ instances'[i] # instances[i]) =>
                /\ document' = document
                /\ instances'[i].pc # "done" => modalInstances' = modalInstances]_vars

\* An image has failed to load: nothing shown, the body still holds the image.
C9_Witness ==
    \E i \in Running :
        /\ instances[i].path = "image"
        /\ instances[i].pc = "imgfailed"
        /\ instances[i].loaderShows = 0
        /\ document[ElementOf(i)].body = ImgBody(instances[i].url[2])

\* The path of a URL: what precedes the first "?" or "#".
RECURSIVE PathOf(_)
PathOf(chars) ==
    IF chars = <<>> \/ Head(chars) \in {"?", "#"}
    THEN <<>>
    ELSE <<Head(chars)>> \o PathOf(Tail(chars))

\* The path ends, in any case, in a dot and an image extension.
PathHasImageExtension(url) ==
    \E ext \in ImageExtensions :
        EndsWith(Lower(PathOf(UrlChars[url])), <<".">> \o ext)

\* C10: a load takes the image branch exactly when the path of its URL ends
\* in an image extension, query string and fragment or not.
C10_ClassifiedByPath ==
    \A i \in Running :
        instances[i].path # "none" =>
            (instances[i].path = "image" <=>
                PathHasImageExtension(instances[i].url[2]))

\* C11: a construction from <a data-bs-target="#demo" href="foo.html"> with no
\* options, while no element is named by the target, adds one element whose
\* id is demo, with a header block and no footer block; and the step in which
\* the loader of such an instance shows a fetched response has put the
\* response's text into the body.
C11_DemoEndToEnd ==
    /\ [][(/\ Len(instances') = Len(instances) + 1
           /\ instances'[Len(instances')].triggerElement =
                Anchor("data-bs-target" :> "#demo", "foo.html")
           /\ instances'[Len(instances')].explicit = NoOptions
           /\ \A e \in SeqIndices(document) :
                document[e].id \notin {"demo", "#demo"}) =>
            LET new == instances'[Len(instances')]
            IN  /\ Len(document') = Len(document) + 1
                /\ new.modalElement = Len(document')
                /\ document'[new.modalElement].id = "demo"
                /\ document'[new.modalElement].header
                /\ ~document'[new.modalElement].footer]_vars
    /\ [][\A i \in Running :
            (/\ instances[i].triggerElement =
                    Anchor("data-bs-target" :> "#demo", "foo.html")
             /\ instances'[i].loaderShows = instances[i].loaderShows + 1
             /\ instances'[i].response \in {"2xx", "non2xx"}) =>
                document'[ElementOf(i)].body =
                    TextBody("foo.html", instances'[i].response)]_vars

\* C12: a field that no explicit option lists holds what was read from the
\* trigger.  keyboard, header, centered and fade read as false exactly when
\* the attribute is the string "false", and as true for every other value and
\* for an absent attribute; staticBackdrop, footer and scrollable read as true
\* exactly when the attribute is the string "true", and as false otherwise; a
\* trigger without option attributes reads as the defaults.
C12_ParseAsymmetry ==
    \A i \in Running :
        LET inst == instances[i]
            el == inst.triggerElement
            read == [f \in Fields \ DOMAIN inst.explicit |-> inst.options[f]]
        IN  /\ \A f \in DOMAIN read \cap {"keyboard", "header", "centered", "fade"} :
                /\ read[f] \in {JTrue, JFalse}
                /\ read[f] = JFalse <=> el.attrs[AttrOf[f]] = JStr("false")
            /\ \A f \in DOMAIN read \cap {"staticBackdrop", "footer", "scrollable"} :
                /\ read[f] \in {JTrue, JFalse}
                /\ read[f] = JTrue <=> el.attrs[AttrOf[f]] = JStr("true")
            /\ (\A a \in OptionAttrs : el.attrs[a] = JNull) =>
                \A f \in DOMAIN read : read[f] = Defaults[f]

\* A header attribute that is neither "true" nor "false" has read as true,
\* while the absent footer attribute has read as false.
C12_Witness ==
    \E i \in Running :
        /\ instances[i].triggerElement.attrs["data-bs-header"] = JStr("xl")
        /\ instances[i].explicit = NoOptions
        /\ instances[i].options.header = JTrue
        /\ instances[i].options.footer = JFalse

\* C13, as stated: the size read from the trigger is the data-bs-size value
\* as it stands whenever the attribute is present, the empty value included,
\* and 'lg' only when the attribute is absent.
C13_SizeVerbatimWhenPresent ==
    \A i \in Running :
        LET inst == instances[i]
            attr == inst.triggerElement.attrs["data-bs-size"]
        IN  "size" \notin DOMAIN inst.explicit =>
                inst.options.size = IF attr = JNull THEN JStr("lg") ELSE attr

\* C13, amended: the size read from the trigger is the data-bs-size value as
\* it stands whenever the attribute is present and not empty, and 'lg' when
\* the attribute is absent or empty.
C13_SizeVerbatimUnlessEmpty ==
    \A i \in Running :
        LET inst == instances[i]
            attr == inst.triggerElement.attrs["data-bs-size"]
        IN  "size" \notin DOMAIN inst.explicit =>
                inst.options.size =
                    IF attr \in {JNull, JStr("")} THEN JStr("lg") ELSE attr

\* A trigger with data-bs-size="" has been read, and the dialog is made with
\* the size lg.
C13_Witness ==
    \E i \in Running :
        /\ instances[i].triggerElement.attrs["data-bs-size"] = JStr("")
        /\ instances[i].explicit = NoOptions
        /\ instances[i].options.size = JStr("lg")
        /\ document[ElementOf(i)].size = "lg"

\* C14: after every step, each instance's resolved configuration has the
\* eight fields, each with a defined value, whatever the options object
\* lists; and no step changes the resolved configuration of an instance that
\* exists.
C14_ResolvedDefinedAndFixed ==
    [][\A i \in SeqIndices(instances') :
        /\ DOMAIN instances'[i].options = Fields
        /\ \A f \in Fields : instances'[i].options[f] # JUndef
        /\ i \in Running => instances'[i].options = instances[i].options]_vars

\* C15, as stated, for the constructions that overlap in the model: a
\* construction against a target identifier on which an earlier instance's
\* load is still pending observes the element as absent and creates an
\* element or a handle of its own.
C15_OverlappingConstructionsRace ==
    [][(/\ Len(instances') = Len(instances) + 1
        /\ \E i \in Running :
            /\ instances[i].targetId = instances'[Len(instances')].targetId
            /\ ~instances[i].threw
            /\ ~Completed(i)) =>
            \/ Len(document') = Len(document) + 1
            \/ Len(modalInstances') = Len(modalInstances) + 1]_vars

\* C15, amended: no provisioning race.  In every reachable state, under every
\* interleaving of constructions and pending continuations, the instances
\* constructed against one target identifier hold the same element and the
\* same handle; that element is the only one with the identifier and has at
\* most one handle over it.
C15_NoProvisioningRace ==
    \A i, j \in Running :
        instances[i].targetId = instances[j].targetId =>
            /\ ElementOf(i) = ElementOf(j)
            /\ instances[i].modal = instances[j].modal
            /\ {e \in SeqIndices(document) : document[e].id = instances[i].targetId}
                 = {ElementOf(i)}
            /\ Cardinality({h \in SeqIndices(modalInstances) :
                    modalInstances[h].element = ElementOf(i)}) <= 1

\* Two instances constructed against #demo, the second while the first fetch
\* was pending: both loads are pending, on one element with one handle.
C15_Witness ==
    \E i, j \in Running :
        /\ i < j
        /\ instances[i].targetId = "#demo"
        /\ instances[j].targetId = "#demo"
        /\ instances[i].pc = "fetch"
        /\ instances[j].pc = "fetch"
        /\ HasHandle(i)
        /\ Len(document) = 3
        /\ Len(modalInstances) = 2

\* C16: no step removes an element of the document or changes an element's
\* id; a step adds at most one element; and a construction whose target
\* identifier no element has adds exactly one element, with that identifier.
C16_ElementsOnlyGrow ==
    [][/\ Len(document') \in {Len(document), Len(document) + 1}
       /\ \A e \in SeqIndices(document) : document'[e].id = document[e].id
       /\ (/\ Len(instances') = Len(instances) + 1
           /\ \A e \in SeqIndices(document) :
                document[e].id # instances'[Len(instances')].targetId) =>
            /\ Len(document') = Len(document) + 1
            /\ document'[Len(document')].id =
                 instances'[Len(instances')].targetId]_vars

\* Two constructions have each added an element, both loads are over and
\* show() was called: the four elements are there under their identifiers.
C16_Witness ==
    /\ Len(instances) = 2
    /\ Len(document) = 4
    /\ \A i \in Running : Completed(i) /\ ElementOf(i) > 2
    /\ showCalls = 1
    /\ document[1].id = "raw"
    /\ document[2].id = "nobody"
    /\ document[3].id = instances[1].targetId
    /\ document[4].id = instances[2].targetId

\* What initModal fixes on an element when it builds it.
StructureFields ==
    {"id", "fade", "size", "centered", "scrollable", "header", "footer",
     "backdropAttr", "hasBody"}

\* C17: no step changes the structure or the modifiers of an element that
\* exists, nor the keyboard option of a handle that exists; and a construction
\* that reuses an element changes nothing in the document but that element's
\* body region, whatever its resolved configuration is.
C17_ReuseTouchesOnlyBody ==
    [][/\ \A e \in SeqIndices(document) : \A k \in StructureFields :
            document'[e][k] = document[e][k]
       /\ \A h \in SeqIndices(modalInstances) :
            modalInstances'[h].keyboard = modalInstances[h].keyboard
       /\ (/\ Len(instances') = Len(instances) + 1
           /\ Len(document') = Len(document)) =>
            /\ \A e \in SeqIndices(document) :
                e # instances'[Len(instances')].modalElement =>
                    document'[e] = document[e]
            /\ modalInstances' = modalInstances]_vars

\* An element built without header under keyboard = false was reused by an
\* instance whose configuration has both true: the element and the handle
\* are as built, and the body holds the reusing instance's response.
C17_Witness ==
    \E i, j \in Running :
        /\ i < j
        /\ ElementOf(i) = ElementOf(j)
        /\ ElementOf(i) > 2
        /\ instances[i].options.header = JFalse
        /\ instances[i].options.keyboard = JFalse
        /\ instances[j].options.header = JTrue
        /\ instances[j].options.keyboard = JTrue
        /\ ~document[ElementOf(j)].header
        /\ modalInstances[instances[j].modal].keyboard = JFalse
        /\ document[ElementOf(j)].body.kind = "text"

\* The loads over handle h whose last continuation has shown it.
ShownLoads(h) ==
    Cardinality({i \in Running :
        instances[i].modal = h /\ instances[i].loaderShows = 1})

\* C18: the continuation of an HTML load that ends the load, whenever it
\* runs and whatever other load shares the element, leaves its own content in
\* the body (the text of its response, or the error message) and shows the
\* shared handle once more; so a handle has been shown once for each load
\* over it that has ended in a continuation, besides the callers' show().
C18_LastContinuationWins ==
    /\ [][\A i \in Running :
            (/\ instances[i].path = "html"
             /\ HasHandle(i)
             /\ instances[i].pc # "done"
             /\ instances'[i].pc = "done") =>
                /\ document'[ElementOf(i)].body =
                    IF instances'[i].response \in {"2xx", "non2xx"}
                    THEN TextBody(instances[i].url[2], instances'[i].response)
                    ELSE ErrorBody
                /\ modalInstances'[instances[i].modal].shows =
                     modalInstances[instances[i].modal].shows + 1]_vars
    /\ [](\A h \in SeqIndices(modalInstances) :
            /\ modalInstances[h].shows >= ShownLoads(h)
            /\ modalInstances[h].shows <= ShownLoads(h) + showCalls)

\* Two HTML loads on one element were pending together; the load started
\* second got its response first, the load started first ran last: the body
\* holds the first load's response and the handle was shown twice.
C18_Witness ==
    \E i, j \in Running :
        /\ i < j
        /\ ElementOf(i) = ElementOf(j)
        /\ HasHandle(i)
        /\ instances[i].path = "html"
        /\ instances[j].path = "html"
        /\ instances[i].pc = "done"
        /\ instances[j].pc = "done"
        /\ instances[i].response = "non2xx"
        /\ instances[j].response = "2xx"
        /\ document[ElementOf(i)].body = TextBody(instances[i].url[2], "non2xx")
        /\ showCalls = 0
        /\ modalInstances[instances[i].modal].shows = 2

\* C19: a body is in the centering layout exactly when an image load has
\* been started on its element; no step takes a body out of the centering
\* layout, and the only step that puts one into it is a construction that
\* starts an image load on the element.
C19_CenteringSticks ==
    /\ [](\A e \in SeqIndices(document) :
            document[e].bodyDisplay = "flex" <=>
                \E i \in Running :
                    ElementOf(i) = e /\ instances[i].path = "image")
    /\ [][\A e \in SeqIndices(document) :
            /\ document[e].bodyDisplay = "flex" =>
                document'[e].bodyDisplay = "flex"
            /\ document'[e].bodyDisplay # document[e].bodyDisplay =>
                /\ Len(instances') = Len(instances) + 1
                /\ instances'[Len(instances')].modalElement = e
                /\ instances'[Len(instances')].path = "image"]_vars

\* An image load, then an HTML load on the same element whose fetch was
\* rejected: the body holds the error message in the centering layout.
C19_Witness ==
    \E i, j \in Running :
        /\ i < j
        /\ ElementOf(i) = ElementOf(j)
        /\ instances[i].path = "image"
        /\ instances[j].path = "html"
        /\ instances[j].pc = "done"
        /\ Rejected(j)
        /\ document[ElementOf(j)].body = ErrorBody
        /\ document[ElementOf(j)].bodyDisplay = "flex"

====
